---- MODULE Spec2Model ----
(***************************************************************************)
(* Dynamic foraging bandit tasks of aind-behavior-gym.                     *)
(*                                                                         *)
(* Modelled objects:                                                       *)
(*   - DynamicForagingTaskBase (dynamic_foraging/task/base.py), a gym      *)
(*     environment whose generate_next_trial is supplied by a schedule;    *)
(*   - RandomWalkTask (dynamic_foraging_tasks/random_walk_task.py);        *)
(*   - DynamicBanditEnv / DynamicBanditEnvHistoryAsState                   *)
(*     (gym_env/dynamic_bandit_env.py), which drive a task object.         *)
(*   - AgentBase.perform with RandomAgent and RandomAgentBiasedIgnore      *)
(*     (dynamic_foraging/agent/base.py, random_agent.py).                  *)
(*                                                                         *)
(* Probabilities are fixed-point numbers: the integer p stands for the     *)
(* float p / PScale.  A numpy Generator is the pair (seed, pos): the       *)
(* stream is a function of the seed, pos counts the draws consumed.        *)
(***************************************************************************)
EXTENDS Integers, Sequences, FiniteSets, TLC

\* ------------------------------------------------------------------ bounds
\* num_trials of a configuration ranges over 1..MaxTrials
MaxTrials == 3
\* step calls a caller makes between two resets
MaxCalls == 3
\* seeds are 0..MaxSeed
MaxSeed == 1
\* fixed-point unit of a probability (PScale stands for 1.0)
PScale == 4

\* ------------------------------------------------------- program constants
L == 0
R == 1
IGNORE == 2
DefaultNumTrials == 1000
DefaultNumArms == 2

\* a seed argument left at its default None (numpy seeds are non-negative)
None == 0 - 1
Seeds == 0..MaxSeed

Last(s) == s[Len(s)]
\* s[::-1]
Reverse(s) == [i \in 1..Len(s) |-> s[Len(s) + 1 - i]]
int(b) == IF b THEN 1 ELSE 0
min(a, b) == IF a <= b THEN a ELSE b
max(a, b) == IF a >= b THEN a ELSE b

\* ------------------------------------------------------------ numpy source
\* The raw stream of the bit generator: a fixed sequence of numbers of 0..11,
\* read from an offset the seed decides.
Tape == <<3, 10, 9, 6, 0, 1, 7, 2, 11, 4, 8, 5, 2, 0, 7, 1, 9, 3>>

default_rng(s) == [seed |-> s, pos |-> 0]

Raw(rng) == Tape[((7 * rng.seed + rng.pos) % Len(Tape)) + 1]

\* Generator.random(): a float of [0, 1), in units of 1/PScale
random(rng) == Raw(rng) % PScale

\* Generator.standard_normal(): a draw of {-1, 0, 1}
standard_normal(rng) == (Raw(rng) \div 4) - 1

advance(rng) == [rng EXCEPT !.pos = @ + 1]

\* Generator.uniform(low, high) = low + (high - low) * random()
rng_uniform(rng, low, high) == low + ((high - low) * random(rng)) \div PScale

\* Generator.normal(loc, scale) = loc + scale * z, z standard normal
rng_normal(rng, loc, scale) == loc + scale * standard_normal(rng)

\* ------------------------------------------------------------ configuration
VARIABLES cfg, task, task2, env, env2, call, caller, agent

vars == <<cfg, task, task2, env, env2, call, caller, agent>>

NumArmsChoices == {1, 2, 3}
HistoryLengths == {1, 2}

\* Parameters of RandomWalkTask.__init__, per arm <<L, R>>
WalkParams ==
  { [p_min |-> <<0, 0>>, p_max |-> <<PScale, PScale>>, sigma |-> <<1, 1>>, mean |-> <<0, 0>>],
    [p_min |-> <<1, 0>>, p_max |-> <<2, PScale - 1>>, sigma |-> <<2, 1>>, mean |-> <<0, 1>>] }

\* a membership test that also admits n
contains_inclusive(n, action) == action \in 0..n

\* spaces.Discrete(n).contains(action)
contains(n, action) == action \in 0..(n - 1)

\* num_actions = num_arms + int(allow_ignore)
num_actions(num_arms, allow_ignore) == num_arms + int(allow_ignore)

\* A task object: the attributes of DynamicForagingTaskBase and of
\* RandomWalkTask.  inited is FALSE while the attributes that reset creates
\* (rng, trial, trial_p_reward, actions, rewards) do not exist yet.
DynamicForagingTaskBase_init(num_arms, allow_ignore, num_trials) ==
  [ num_trials |-> num_trials,
    allow_ignore |-> allow_ignore,
    n |-> num_actions(num_arms, allow_ignore),
    inited |-> FALSE,
    rng |-> default_rng(0),
    trial |-> -1,
    trial_p_reward |-> <<>>,
    actions |-> <<>>,
    rewards |-> <<>>,
    hold_this_block |-> FALSE,
    block_starts |-> <<>>,
    block_lens |-> <<>>,
    block_p_reward |-> <<>> ]

\* RandomWalkTask.__init__ stores the walk parameters only (kept in cfg)
RandomWalkTask_init == DynamicForagingTaskBase_init(0, FALSE, 0)

\* DynamicBanditEnv.__init__(task, num_arms, allow_ignore, num_trials)
DynamicBanditEnv_init(num_arms, allow_ignore, num_trials) ==
  [ num_trials |-> num_trials,
    allow_ignore |-> allow_ignore,
    n |-> num_actions(num_arms, allow_ignore),
    inited |-> FALSE,
    rng |-> default_rng(0),
    trial |-> -1,
    history_length |-> 0,
    history |-> <<>> ]

\* DynamicBanditEnvHistoryAsState.__init__(task, num_trials, history_length):
\* super().__init__(task, num_trials) passes num_trials positionally, in the
\* place of num_arms; allow_ignore and num_trials keep their defaults.
DynamicBanditEnvHistoryAsState_init(num_trials, history_length) ==
  [ DynamicBanditEnv_init(num_trials, FALSE, DefaultNumTrials)
      EXCEPT !.history_length = history_length, !.history = <<>> ]

\* np.random.default_rng(seed): with seed None the generator is seeded from
\* fresh operating-system entropy, here the input `entropy`
seeded_rng(seed, entropy) == default_rng(IF seed = None THEN entropy ELSE seed)

\* ------------------------------------------------------------ RandomWalkTask
\* absorbing at the other arm's bounds
absorb_other_arm(side, p) == min(cfg.p_max[2 - side], max(cfg.p_min[2 - side], p))

\* "Absorb at the boundary": min(p_max[side], max(p_min[side], p))
absorb(side, p) == min(cfg.p_max[side + 1], max(cfg.p_min[side + 1], p))

\* _generate_next_p that never looks at hold_this_block
generate_next_p_ignores_hold(t, side) ==
  IF t.trial = 0
    THEN [ p |-> rng_uniform(t.rng, cfg.p_min[side + 1], cfg.p_max[side + 1]),
           rng |-> advance(t.rng) ]
    ELSE [ p |-> absorb(side, rng_normal(t.rng,
                              Last(t.trial_p_reward)[side + 1] + cfg.mean[side + 1],
                              cfg.sigma[side + 1])),
           rng |-> advance(t.rng) ]

\* RandomWalkTask._generate_next_p(side): the value returned and the
\* generator after the call.  t.trial is already incremented and the new
\* vector is not yet appended.
generate_next_p(t, side) ==
  IF t.trial = 0
    THEN [ p |-> rng_uniform(t.rng, cfg.p_min[side + 1], cfg.p_max[side + 1]),
           rng |-> advance(t.rng) ]
    ELSE IF t.hold_this_block
      THEN [ p |-> Last(t.trial_p_reward)[side + 1], rng |-> t.rng ]
      ELSE [ p |-> absorb(side, rng_normal(t.rng,
                                Last(t.trial_p_reward)[side + 1] + cfg.mean[side + 1],
                                cfg.sigma[side + 1])),
             rng |-> advance(t.rng) ]

\* RandomWalkTask.next_trial: trial += 1, then append [p(L), p(R)]
next_trial(t) ==
  LET t1 == [t EXCEPT !.trial = @ + 1]
      gl == generate_next_p(t1, L)
      t2 == [t1 EXCEPT !.rng = gl.rng]
      gr == generate_next_p(t2, R)
  IN  [t2 EXCEPT !.rng = gr.rng, !.trial_p_reward = Append(@, <<gl.p, gr.p>>)]

\* DynamicBanditTask.reset(seed), the base class of RandomWalkTask: seeds the
\* task's own generator and empties the record of actions
DynamicBanditTask_reset(t, seed, entropy) ==
  [t EXCEPT !.inited = TRUE, !.rng = seeded_rng(seed, entropy), !.trial = -1, !.actions = <<>>]

\* DynamicBanditTask.add_action(action)
add_action(t, action) == [t EXCEPT !.actions = Append(@, action)]

\* RandomWalkTask.reset(seed)
RandomWalkTask_reset(t, seed, entropy) ==
  LET t1 == DynamicBanditTask_reset(t, seed, entropy)
      t2 == [t1 EXCEPT !.hold_this_block = FALSE, !.trial_p_reward = <<>>, !.trial = -1]
  IN  next_trial(t2)

\* --------------------------------------------------- DynamicForagingTaskBase
\* What a call returned or raised.  op: the method, arg: its argument.
Returned(op, arg, obs, reward, terminated) ==
  [ op |-> op, arg |-> arg, err |-> "none", obs |-> obs, reward |-> reward,
    terminated |-> terminated, truncated |-> FALSE ]

Raised(op, arg, err) ==
  [ op |-> op, arg |-> arg, err |-> err, obs |-> <<>>, reward |-> 0,
    terminated |-> FALSE, truncated |-> FALSE ]

\* DynamicForagingTaskBase._get_obs
get_obs(t) == [trial |-> t.trial]

\* ---------------------------------------------------------- CoupledBlockTask
\* The block-switching schedule (dynamic_foraging/task/coupled_block_task.py).
\* A block's length is drawn from the task's generator within
\* [block_min, block_max]; the start of the block after it is appended to
\* block_starts when the block is drawn.
generate_block_len(t) == cfg.block_min + (Raw(t.rng) % (cfg.block_max - cfg.block_min + 1))

\* the favoured arm of the next block: drawn for the first block, flipped after
generate_block_p(t) ==
  LET first == IF Raw(t.rng) % 2 = 0 THEN cfg.p_pair ELSE Reverse(cfg.p_pair)
  IN  IF t.block_p_reward = <<>> THEN first ELSE Reverse(Last(t.block_p_reward))

next_block(t) ==
  LET len == generate_block_len(t)
      t1 == [t EXCEPT !.rng = advance(@), !.block_lens = Append(@, len),
                      !.block_starts = Append(@, Last(@) + len)]
  IN  [t1 EXCEPT !.block_p_reward = Append(@, generate_block_p(t1)),
                 !.rng = IF t1.block_p_reward = <<>> THEN advance(@) ELSE @]

\* CoupledBlockTask.generate_next_trial
CoupledBlockTask_generate_next_trial(t) ==
  LET t1 == [t EXCEPT !.trial = @ + 1]
      t2 == IF t1.trial = Last(t1.block_starts) THEN next_block(t1) ELSE t1
  IN  [t2 EXCEPT !.trial_p_reward = Append(@, Last(t2.block_p_reward))]

\* CoupledBlockTask.reset: the block record starts as [0]
CoupledBlockTask_reset(t) ==
  [t EXCEPT !.block_starts = <<0>>, !.block_lens = <<>>, !.block_p_reward = <<>>]

TaskCls == "DynamicForagingTaskBase"
BlockCls == "CoupledBlockTask"
WalkCls == "RandomWalkTask"
EnvCls == "DynamicBanditEnv"
HistCls == "DynamicBanditEnvHistoryAsState"

\* The schedule's part of reset: the attributes the subclass creates
schedule_reset(t) ==
  IF cfg.cls = BlockCls THEN CoupledBlockTask_reset(t) ELSE [t EXCEPT !.hold_this_block = FALSE]

\* an override that appends the vector and forgets trial += 1
generate_next_trial_no_increment(t) == [next_trial(t) EXCEPT !.trial = t.trial]

\* generate_next_trial as the schedule overrides it: append one vector to
\* trial_p_reward and increment trial
generate_next_trial(t) ==
  IF cfg.cls = BlockCls THEN CoupledBlockTask_generate_next_trial(t) ELSE next_trial(t)

\* a reset that creates the generator once and keeps it on later resets
reset_keeps_rng(t, seed, entropy) ==
  LET t1 == [t EXCEPT !.inited = TRUE,
                      !.rng = IF t.inited THEN t.rng ELSE seeded_rng(seed, entropy),
                      !.trial = -1,
                      !.trial_p_reward = <<>>, !.actions = <<>>, !.rewards = <<>>]
  IN  generate_next_trial(schedule_reset(t1))

\* a reset that keeps the reward list of the episode before
reset_keeps_rewards(t, seed, entropy) ==
  LET t1 == [t EXCEPT !.inited = TRUE, !.rng = seeded_rng(seed, entropy), !.trial = -1,
                      !.trial_p_reward = <<>>, !.actions = <<>>]
  IN  generate_next_trial(schedule_reset(t1))

\* DynamicForagingTaskBase.reset(seed)
reset(t, seed, entropy) ==
  LET t1 == [t EXCEPT !.inited = TRUE, !.rng = seeded_rng(seed, entropy), !.trial = -1,
                      !.trial_p_reward = <<>>, !.actions = <<>>, !.rewards = <<>>]
  IN  generate_next_trial(schedule_reset(t1))

\* generate_reward drawing before it looks at ignored
generate_reward_always_draws(t, action) ==
  LET ignored == t.allow_ignore /\ action = t.n - 1
      u == rng_uniform(t.rng, 0, PScale)
      t1 == [t EXCEPT !.rng = advance(@)]
  IN  IF ignored THEN [t |-> t1, err |-> "none", reward |-> 0]
      ELSE IF action + 1 > Len(Last(t.trial_p_reward))
        THEN [t |-> t1, err |-> "IndexError", reward |-> 0]
        ELSE [t |-> t1, err |-> "none",
              reward |-> IF u < Last(t.trial_p_reward)[action + 1] THEN 1 ELSE 0]

\* generate_reward comparing with <= in the place of <
generate_reward_le(t, action) ==
  LET ignored == t.allow_ignore /\ action = t.n - 1
      u == rng_uniform(t.rng, 0, PScale)
      t1 == [t EXCEPT !.rng = advance(@)]
  IN  IF ignored THEN [t |-> t, err |-> "none", reward |-> 0]
      ELSE IF action + 1 > Len(Last(t.trial_p_reward))
        THEN [t |-> t1, err |-> "IndexError", reward |-> 0]
        ELSE [t |-> t1, err |-> "none",
              reward |-> IF u <= Last(t.trial_p_reward)[action + 1] THEN 1 ELSE 0]

\* DynamicForagingTaskBase.generate_reward(action): the task after the call
\* and the reward, or the error raised.  The uniform draw is the left operand
\* of the comparison and is evaluated before trial_p_reward[-1][action].
generate_reward(t, action) ==
  LET ignored == t.allow_ignore /\ action = t.n - 1
      u == rng_uniform(t.rng, 0, PScale)
      t1 == [t EXCEPT !.rng = advance(@)]
  IN  IF ignored THEN [t |-> t, err |-> "none", reward |-> 0]
      ELSE IF action + 1 > Len(Last(t.trial_p_reward))
        THEN [t |-> t1, err |-> "IndexError", reward |-> 0]
        ELSE [t |-> t1, err |-> "none",
              reward |-> IF u < Last(t.trial_p_reward)[action + 1] THEN 1 ELSE 0]

\* termination decided after the increment: trial == num_trials
is_terminated_late(trial, num_trials) == (trial = num_trials)

\* "Decide termination before trial += 1": trial == num_trials - 1
is_terminated(trial, num_trials) == (trial = num_trials - 1)

\* a step that generates the next vector on the terminal trial too and
\* throws it away
step_generates_then_discards(t, action) ==
  IF ~contains(t.n, action) THEN [t |-> t, out |-> Raised("step", action, "AssertionError")]
  ELSE IF ~t.inited THEN [t |-> t, out |-> Raised("step", action, "AttributeError")]
  ELSE
    LET t1 == [t EXCEPT !.actions = Append(@, action)]
        g == generate_reward(t1, action)
        t2 == [g.t EXCEPT !.rewards = Append(@, g.reward)]
        terminated == is_terminated(t2.trial, t2.num_trials)
        t3 == IF ~terminated THEN generate_next_trial(t2)
              ELSE [t2 EXCEPT !.rng = generate_next_trial(t2).rng]
    IN  IF g.err # "none" THEN [t |-> g.t, out |-> Raised("step", action, g.err)]
        ELSE [t |-> t3, out |-> Returned("step", action, get_obs(t3), g.reward, terminated)]

\* DynamicForagingTaskBase.step(action)
step(t, action) ==
  IF ~contains(t.n, action) THEN [t |-> t, out |-> Raised("step", action, "AssertionError")]
  ELSE IF ~t.inited THEN [t |-> t, out |-> Raised("step", action, "AttributeError")]
  ELSE
    LET t1 == [t EXCEPT !.actions = Append(@, action)]
        g == generate_reward(t1, action)
        t2 == [g.t EXCEPT !.rewards = Append(@, g.reward)]
        terminated == is_terminated(t2.trial, t2.num_trials)
        t3 == IF ~terminated THEN generate_next_trial(t2) ELSE t2
    IN  IF g.err # "none" THEN [t |-> g.t, out |-> Raised("step", action, g.err)]
        ELSE [t |-> t3, out |-> Returned("step", action, get_obs(t3), g.reward, terminated)]

\* get_choice_history / get_reward_history: np.array of the list
get_choice_history(t) == t.actions

get_reward_history(t) == t.rewards

\* get_p_reward: np.array(trial_p_reward).T, one row per arm
get_p_reward(t) ==
  IF t.trial_p_reward = <<>> THEN <<>>
  ELSE [arm \in 1..Len(t.trial_p_reward[1]) |->
          [tr \in 1..Len(t.trial_p_reward) |-> t.trial_p_reward[tr][arm]]]

\* ---------------------------------------------------------- DynamicBanditEnv
\* DynamicBanditEnv._get_obs: {"trial": self.task.trial}
DynamicBanditEnv_get_obs(e, t) == [trial |-> t.trial]

\* [(0, 0)] * k
ZeroPairs(k) == [i \in 1..k |-> <<0, 0>>]

\* np.array(history).flatten()
Flatten(h) == [i \in 1..(2 * Len(h)) |-> h[(i + 1) \div 2][2 - (i % 2)]]

\* the window flattened oldest pair first
HistoryAsState_get_obs_oldest_first(e) ==
  IF Len(e.history) < e.history_length
    THEN Flatten(e.history \o ZeroPairs(e.history_length - Len(e.history)))
    ELSE Flatten(SubSeq(e.history, Len(e.history) - e.history_length + 1, Len(e.history)))

\* DynamicBanditEnvHistoryAsState._get_obs
HistoryAsState_get_obs(e) ==
  IF Len(e.history) < e.history_length
    THEN Flatten(Reverse(e.history) \o ZeroPairs(e.history_length - Len(e.history)))
    ELSE Flatten(Reverse(SubSeq(e.history, Len(e.history) - e.history_length + 1,
                                Len(e.history))))

\* DynamicBanditEnv.reset(seed): the env and the task seed one generator each
\* from the same seed
DynamicBanditEnv_reset(e, t, seed, entropy, entropy_task) ==
  LET t1 == RandomWalkTask_reset(t, seed, entropy_task)
      e1 == [e EXCEPT !.inited = TRUE, !.rng = seeded_rng(seed, entropy), !.trial = t1.trial]
  IN  [e |-> e1, t |-> t1, out |-> Returned("reset", seed, DynamicBanditEnv_get_obs(e1, t1), 0, FALSE)]

\* a step that reports the action to the task on the terminal trial too
DynamicBanditEnv_step_reports_terminal(e, t, action) ==
  LET ignored == e.allow_ignore /\ action = e.n - 1
      u == rng_uniform(e.rng, 0, PScale)
      e1 == IF ignored THEN e ELSE [e EXCEPT !.rng = advance(@)]
      reward == IF ~ignored /\ u < Last(t.trial_p_reward)[action + 1] THEN 1 ELSE 0
      terminated == is_terminated(e1.trial, e1.num_trials)
      t1 == IF ~terminated THEN next_trial(add_action(t, action)) ELSE add_action(t, action)
      e2 == IF ~terminated THEN [e1 EXCEPT !.trial = t1.trial] ELSE e1
  IN  IF ~contains(e.n, action)
        THEN [e |-> e, t |-> t, out |-> Raised("step", action, "AssertionError")]
      ELSE IF ~e.inited
        THEN [e |-> e, t |-> t, out |-> Raised("step", action, "AttributeError")]
      ELSE IF ~ignored /\ action + 1 > Len(Last(t.trial_p_reward))
        THEN [e |-> e1, t |-> t, out |-> Raised("step", action, "IndexError")]
      ELSE [e |-> e2, t |-> t1,
            out |-> Returned("step", action, DynamicBanditEnv_get_obs(e2, t1), reward, terminated)]

\* DynamicBanditEnv.step(action)
DynamicBanditEnv_step(e, t, action) ==
  LET ignored == e.allow_ignore /\ action = e.n - 1
      u == rng_uniform(e.rng, 0, PScale)
      e1 == IF ignored THEN e ELSE [e EXCEPT !.rng = advance(@)]
      reward == IF ~ignored /\ u < Last(t.trial_p_reward)[action + 1] THEN 1 ELSE 0
      terminated == is_terminated(e1.trial, e1.num_trials)
      t1 == IF ~terminated THEN next_trial(add_action(t, action)) ELSE t
      e2 == IF ~terminated THEN [e1 EXCEPT !.trial = t1.trial] ELSE e1
  IN  IF ~contains(e.n, action)
        THEN [e |-> e, t |-> t, out |-> Raised("step", action, "AssertionError")]
      ELSE IF ~e.inited
        THEN [e |-> e, t |-> t, out |-> Raised("step", action, "AttributeError")]
      ELSE IF ~ignored /\ action + 1 > Len(Last(t.trial_p_reward))
        THEN [e |-> e1, t |-> t, out |-> Raised("step", action, "IndexError")]
      ELSE [e |-> e2, t |-> t1,
            out |-> Returned("step", action, DynamicBanditEnv_get_obs(e2, t1), reward, terminated)]

\* DynamicBanditEnvHistoryAsState.reset(seed)
HistoryAsState_reset(e, t, seed, entropy, entropy_task) ==
  LET r == DynamicBanditEnv_reset(e, t, seed, entropy, entropy_task)
      e1 == [r.e EXCEPT !.history = ZeroPairs(e.history_length)]
  IN  [e |-> e1, t |-> r.t, out |-> [r.out EXCEPT !.obs = HistoryAsState_get_obs(e1)]]

\* DynamicBanditEnvHistoryAsState.step(action)
HistoryAsState_step(e, t, action) ==
  LET r == DynamicBanditEnv_step(e, t, action)
      e1 == [r.e EXCEPT !.history = Append(@, <<action, r.out.reward>>)]
  IN  IF r.out.err # "none" THEN r
      ELSE [e |-> e1, t |-> r.t, out |-> [r.out EXCEPT !.obs = HistoryAsState_get_obs(e1)]]

\* ------------------------------------------------------------- the program
\* Constructor arguments a program passes
TaskConfigs ==
  { [cls |-> c, num_arms |-> a, allow_ignore |-> i, num_trials |-> n, history_length |-> 0,
     p_min |-> w.p_min, p_max |-> w.p_max, sigma |-> w.sigma, mean |-> w.mean] :
      c \in {TaskCls}, a \in NumArmsChoices, i \in BOOLEAN, n \in 1..MaxTrials, w \in WalkParams }

EnvConfigs ==
  { [cls |-> c, num_arms |-> a, allow_ignore |-> i, num_trials |-> n, history_length |-> 0,
     p_min |-> w.p_min, p_max |-> w.p_max, sigma |-> w.sigma, mean |-> w.mean] :
      c \in {EnvCls}, a \in NumArmsChoices, i \in BOOLEAN, n \in 1..MaxTrials, w \in WalkParams }

HistConfigs ==
  { [cls |-> c, num_arms |-> DefaultNumArms, allow_ignore |-> FALSE, num_trials |-> n,
     history_length |-> h,
     p_min |-> w.p_min, p_max |-> w.p_max, sigma |-> w.sigma, mean |-> w.mean] :
      c \in {HistCls}, n \in 1..MaxTrials, h \in HistoryLengths, w \in WalkParams }

\* The caller's own record of an episode, as the test keeps it: the actions
\* it passed to the steps that returned and the rewards they returned; calls
\* counts the step calls since the last reset, returned or raised.
\* seeds: the seed arguments of the reset that began the episode, where two
\* objects are reset side by side.
EpisodeOf(seeds) == [actions |-> <<>>, rewards |-> <<>>, calls |-> 0, seeds |-> seeds]

NewEpisode == EpisodeOf(<<None, None>>)

\* What a reset returned, with the number of step calls the caller had made
\* in the episode the reset discards
Discarding(out, calls) ==
  [ op |-> out.op, arg |-> out.arg, err |-> out.err, obs |-> out.obs, reward |-> out.reward,
    terminated |-> out.terminated, truncated |-> out.truncated, discarded |-> calls ]

Logged(c, out) ==
  IF out.err = "none"
    THEN [c EXCEPT !.actions = Append(@, out.arg), !.rewards = Append(@, out.reward),
                   !.calls = @ + 1]
    ELSE [c EXCEPT !.calls = @ + 1]

\* a program that drives the task or the env itself constructs no agent
NoAgent == [cls |-> "none"]

Constructed(c) ==
  /\ cfg = c
  /\ task = IF c.cls \in {TaskCls, BlockCls}
              THEN DynamicForagingTaskBase_init(c.num_arms, c.allow_ignore, c.num_trials)
              ELSE RandomWalkTask_init
  /\ task2 = task
  /\ env = IF c.cls = HistCls
             THEN DynamicBanditEnvHistoryAsState_init(c.num_trials, c.history_length)
             ELSE DynamicBanditEnv_init(c.num_arms, c.allow_ignore, c.num_trials)
  /\ call = Raised("init", None, "none")
  /\ caller = NewEpisode
  /\ agent = NoAgent
  /\ env2 = env

Init == \E c \in TaskConfigs \cup EnvConfigs \cup HistConfigs : Constructed(c)

\* The actions a caller may try: one below and one above the action space
ActionInputs(n) == (0 - 1)..n

\* task.reset(seed = seed)
TaskReset ==
  /\ cfg.cls \in {TaskCls, BlockCls}
  /\ \E seed \in Seeds \cup {None}, entropy \in Seeds :
       /\ seed # None => entropy = seed
       /\ task' = reset(task, seed, entropy)
       /\ call' = Discarding(Returned("reset", seed, get_obs(task'), 0, FALSE), caller.calls)
  /\ caller' = NewEpisode
  /\ UNCHANGED <<env2, agent, cfg, task2, env>>

\* task.step(action)
TaskStep ==
  /\ cfg.cls \in {TaskCls, BlockCls}
  /\ caller.calls < MaxCalls
  /\ \E action \in ActionInputs(task.n) :
       LET r == step(task, action)
       IN  /\ task' = r.t
           /\ call' = r.out
           /\ caller' = Logged(caller, r.out)
  /\ UNCHANGED <<env2, agent, cfg, task2, env>>

\* env.reset(seed = seed), DynamicBanditEnv
EnvReset ==
  /\ cfg.cls = EnvCls
  /\ \E seed \in Seeds \cup {None}, entropy \in Seeds, entropy_task \in Seeds :
       /\ seed # None => (entropy = seed /\ entropy_task = seed)
       /\ LET r == DynamicBanditEnv_reset(env, task, seed, entropy, entropy_task)
          IN  env' = r.e /\ task' = r.t /\ call' = Discarding(r.out, caller.calls)
  /\ caller' = NewEpisode
  /\ UNCHANGED <<env2, agent, cfg, task2>>

\* env.step(action), DynamicBanditEnv
EnvStep ==
  /\ cfg.cls = EnvCls
  /\ caller.calls < MaxCalls
  /\ \E action \in ActionInputs(env.n) :
       LET r == DynamicBanditEnv_step(env, task, action)
       IN  env' = r.e /\ task' = r.t /\ call' = r.out /\ caller' = Logged(caller, r.out)
  /\ UNCHANGED <<env2, agent, cfg, task2>>

\* env.reset(seed = seed), DynamicBanditEnvHistoryAsState
HistReset ==
  /\ cfg.cls = HistCls
  /\ \E seed \in Seeds \cup {None}, entropy \in Seeds, entropy_task \in Seeds :
       /\ seed # None => (entropy = seed /\ entropy_task = seed)
       /\ LET r == HistoryAsState_reset(env, task, seed, entropy, entropy_task)
          IN  env' = r.e /\ task' = r.t /\ call' = Discarding(r.out, caller.calls)
  /\ caller' = NewEpisode
  /\ UNCHANGED <<env2, agent, cfg, task2>>

\* env.step(action), DynamicBanditEnvHistoryAsState
HistStep ==
  /\ cfg.cls = HistCls
  /\ caller.calls < MaxCalls
  /\ \E action \in ActionInputs(env.n) :
       LET r == HistoryAsState_step(env, task, action)
       IN  env' = r.e /\ task' = r.t /\ call' = r.out /\ caller' = Logged(caller, r.out)
  /\ UNCHANGED <<env2, agent, cfg, task2>>

Next == TaskReset \/ TaskStep \/ EnvReset \/ EnvStep \/ HistReset \/ HistStep

Spec == Init /\ [][Next]_vars

\* ------------------------------------------- RandomWalkTask driven directly
\* The schedule used on its own, as in the module's __main__: reset, then
\* next_trial again and again, the hold flag set or cleared from outside.
WalkConfigs ==
  { [cls |-> c, num_arms |-> DefaultNumArms, allow_ignore |-> FALSE, num_trials |-> 0,
     history_length |-> 0,
     p_min |-> w.p_min, p_max |-> w.p_max, sigma |-> w.sigma, mean |-> w.mean] :
      c \in {WalkCls}, w \in WalkParams }

InitWalk == \E c \in WalkConfigs : Constructed(c)

\* task.reset(seed = seed); returns (p_L, p_R) of trial 0
WalkReset ==
  /\ \E seed \in Seeds \cup {None}, entropy \in Seeds :
       /\ seed # None => entropy = seed
       /\ task' = RandomWalkTask_reset(task, seed, entropy)
       /\ call' = Returned("reset", seed, task'.trial_p_reward[1], 0, FALSE)
  /\ caller' = NewEpisode
  /\ UNCHANGED <<env2, agent, cfg, task2, env>>

\* task.next_trial()
WalkNextTrial ==
  /\ task.trial < MaxCalls
  /\ IF task.inited
       THEN task' = next_trial(task) /\ call' = Returned("next_trial", None, <<>>, 0, FALSE)
       ELSE task' = task /\ call' = Raised("next_trial", None, "AttributeError")
  /\ UNCHANGED <<env2, agent, cfg, task2, env, caller>>

\* task.hold_this_block = b, set by the protocol that runs the task
WalkSetHold ==
  /\ \E b \in BOOLEAN :
       /\ task' = [task EXCEPT !.hold_this_block = b]
       /\ call' = Returned("hold", None, <<>>, 0, FALSE)
  /\ UNCHANGED <<env2, agent, cfg, task2, env, caller>>

NextWalk == WalkReset \/ WalkNextTrial \/ WalkSetHold

SpecWalk == InitWalk /\ [][NextWalk]_vars

\* ------------------------------------------------ two tasks side by side
\* Two independently constructed tasks of one configuration, each reset with
\* its own seed argument, then stepped with the same actions.
PairConfigs == { c \in TaskConfigs : c.sigma = <<2, 1>> /\ c.num_arms >= 2 }

InitPair == \E c \in PairConfigs : Constructed(c)

PairReset ==
  /\ \E seed1 \in Seeds \cup {None}, seed2 \in Seeds \cup {None},
        entropy1 \in Seeds, entropy2 \in Seeds :
       /\ seed1 # None => entropy1 = seed1
       /\ seed2 # None => entropy2 = seed2
       /\ task' = reset(task, seed1, entropy1)
       /\ task2' = reset(task2, seed2, entropy2)
       /\ call' = Returned("reset", seed1, get_obs(task'), 0, FALSE)
       /\ caller' = EpisodeOf(<<seed1, seed2>>)
  /\ UNCHANGED <<env2, agent, cfg, env>>

PairStep ==
  /\ caller.calls < MaxCalls
  /\ \E action \in ActionInputs(task.n) :
       LET r == step(task, action)
           r2 == step(task2, action)
       IN  /\ task' = r.t
           /\ task2' = r2.t
           /\ call' = r.out
           /\ caller' = Logged(caller, r.out)
  /\ UNCHANGED <<env2, agent, cfg, env>>

NextPair == PairReset \/ PairStep

SpecPair == InitPair /\ [][NextPair]_vars

\* ------------------------------------------------------ CoupledBlockTask
BlockParams ==
  { [block_min |-> 1, block_max |-> 2, p_pair |-> <<PScale - 1, 1>>],
    [block_min |-> 2, block_max |-> 3, p_pair |-> <<PScale, 0>>] }

BlockConfigs ==
  { [cls |-> c, num_arms |-> DefaultNumArms, allow_ignore |-> i, num_trials |-> n,
     history_length |-> 0,
     block_min |-> b.block_min, block_max |-> b.block_max, p_pair |-> b.p_pair] :
      c \in {BlockCls}, i \in BOOLEAN, n \in 1..MaxTrials, b \in BlockParams }

InitBlock == \E c \in BlockConfigs : Constructed(c)

NextBlock == TaskReset \/ TaskStep

SpecBlock == InitBlock /\ [][NextBlock]_vars

\* ------------------------------------------------------ AgentBase.perform
\* An agent constructed on a task and run with perform().  The agent's
\* generator is seeded from entropy (seed = None), so a draw of it is any
\* outcome of positive probability.
RandomAgentCls == "RandomAgent"
BiasedIgnoreCls == "RandomAgentBiasedIgnore"
\* a subclass of AgentBase that overrides act with a policy over the task's
\* action space and learn with an update that returns
PolicyAgentCls == "PolicyAgent"

AgentClasses == {RandomAgentCls, BiasedIgnoreCls, PolicyAgentCls}

\* AgentBase.__init__(task, seed): k_arms and allow_ignore are copied from
\* the task; n_actions is not an attribute the constructor creates.  pc is
\* the position in perform; observation, action, reward, done are perform's
\* local variables; act_observation remembers the argument of the last act.
AgentBase_init(cls, t) ==
  [ cls |-> cls,
    k_arms |-> t.n,
    allow_ignore |-> t.allow_ignore,
    has_n_actions |-> FALSE,
    pc |-> "init",
    observation |-> [trial |-> -1],
    act_observation |-> [trial |-> -1],
    action |-> 0,
    reward |-> 0,
    done |-> FALSE ]

\* [0] * 100 + [1] * 20 + [2] * 1: how often each index is in the population
ChoicePopulation == <<100, 20, 1>>

\* Generator.choice(population): the values a draw can return
choice(population) == { i - 1 : i \in { j \in 1..Len(population) : population[j] > 0 } }

\* RandomAgent.act(observation): self.rng.choice(self.n_actions); the actions
\* it can return, none when the attribute lookup raises
RandomAgent_act(a) ==
  IF a.has_n_actions THEN [err |-> "none", actions |-> 0..(a.k_arms - 1)]
  ELSE [err |-> "AttributeError", actions |-> {}]

\* RandomAgentBiasedIgnore.act(*args): [L, R, IGNORE][rng.choice(...)]
RandomAgentBiasedIgnore_act(a) ==
  [err |-> "none", actions |-> { <<L, R, IGNORE>>[i + 1] : i \in choice(ChoicePopulation) }]

\* act of the policy subclass: any member of the action space
PolicyAgent_act(a) == [err |-> "none", actions |-> 0..(a.k_arms - 1)]

act(a) ==
  IF a.cls = RandomAgentCls THEN RandomAgent_act(a)
  ELSE IF a.cls = BiasedIgnoreCls THEN RandomAgentBiasedIgnore_act(a)
  ELSE PolicyAgent_act(a)

\* the arguments perform passes to learn
learn_args(a) ==
  [ observation |-> a.observation, action |-> a.action, reward |-> a.reward,
    next_observation |-> a.observation, done |-> a.done ]

AgentInit ==
  \E c \in TaskConfigs, a \in AgentClasses :
    /\ cfg = c
    /\ task = DynamicForagingTaskBase_init(c.num_arms, c.allow_ignore, c.num_trials)
    /\ task2 = task
    /\ env = DynamicBanditEnv_init(c.num_arms, c.allow_ignore, c.num_trials)
    /\ call = Raised("init", None, "none")
    /\ caller = NewEpisode
    /\ agent = AgentBase_init(a, task)
    /\ env2 = env

\* perform(): observation, info = self.task.reset(); done = False
AgentPerform ==
  /\ agent.pc \in {"init", "returned", "raised"}
  /\ \E entropy \in Seeds :
       /\ task' = reset(task, None, entropy)
       /\ call' = Returned("reset", None, get_obs(task'), 0, FALSE)
       /\ agent' = [agent EXCEPT !.observation = get_obs(task'), !.done = FALSE, !.pc = "act"]
  /\ caller' = NewEpisode
  /\ UNCHANGED <<env2, cfg, task2, env>>

\* action = self.act(observation)
AgentAct ==
  /\ agent.pc = "act"
  /\ LET r == act(agent)
     IN  IF r.err # "none"
           THEN /\ call' = Raised("act", agent.observation, r.err)
                /\ agent' = [agent EXCEPT !.act_observation = agent.observation, !.pc = "raised"]
           ELSE \E action \in r.actions :
                  /\ call' = Returned("act", agent.observation, <<>>, 0, FALSE)
                  /\ agent' = [agent EXCEPT !.act_observation = agent.observation,
                                            !.action = action, !.pc = "step"]
  /\ UNCHANGED <<env2, cfg, task, task2, env, caller>>

\* observation, reward, done, truncated, info = self.task.step(action)
AgentStep ==
  /\ agent.pc = "step"
  /\ LET r == step(task, agent.action)
     IN  /\ task' = r.t
         /\ call' = r.out
         /\ caller' = Logged(caller, r.out)
         /\ agent' = IF r.out.err # "none" THEN [agent EXCEPT !.pc = "raised"]
                      ELSE [agent EXCEPT !.observation = r.out.obs, !.reward = r.out.reward,
                                         !.done = r.out.terminated, !.pc = "learn"]
  /\ UNCHANGED <<env2, cfg, task2, env>>

\* self.learn(observation, action, reward, observation, done); while not done
AgentLearn ==
  /\ agent.pc = "learn"
  /\ call' = Returned("learn", learn_args(agent), <<>>, 0, FALSE)
  /\ agent' = [agent EXCEPT !.pc = IF agent.done THEN "returned" ELSE "act"]
  /\ UNCHANGED <<env2, cfg, task, task2, env, caller>>

NextAgent == AgentPerform \/ AgentAct \/ AgentStep \/ AgentLearn

SpecAgent == AgentInit /\ [][NextAgent]_vars

\* ------------------------------------------- two envs wrapping one task
\* Two DynamicBanditEnv instances constructed with the same arguments on the
\* same task object (env and env2), reset and stepped in any order.
SharedConfigs ==
  { c \in EnvConfigs : c.sigma = <<1, 1>> /\ c.num_arms = DefaultNumArms /\ ~c.allow_ignore }

InitShared == \E c \in SharedConfigs : Constructed(c)

\* DynamicBanditEnv._get_info: {"trial": self.trial, ...}
DynamicBanditEnv_get_info(e) == [trial |-> e.trial]

\* What reset or step of env number which returned: observation and info
ReturnedBy(which, out, e) ==
  [ op |-> out.op, arg |-> out.arg, err |-> out.err, obs |-> out.obs, reward |-> out.reward,
    terminated |-> out.terminated, truncated |-> out.truncated,
    env |-> which, info |-> DynamicBanditEnv_get_info(e) ]

\* env.reset(seed = seed) or env2.reset(seed = seed)
SharedReset ==
  /\ \E which \in {1, 2}, seed \in Seeds \cup {None}, entropy \in Seeds, entropy_task \in Seeds :
       /\ seed # None => (entropy = seed /\ entropy_task = seed)
       /\ LET r == DynamicBanditEnv_reset(IF which = 1 THEN env ELSE env2, task,
                                          seed, entropy, entropy_task)
          IN  /\ env' = IF which = 1 THEN r.e ELSE env
              /\ env2' = IF which = 2 THEN r.e ELSE env2
              /\ task' = r.t
              /\ call' = ReturnedBy(which, r.out, r.e)
  /\ caller' = NewEpisode
  /\ UNCHANGED <<cfg, task2, agent>>

\* env.step(action) or env2.step(action)
SharedStep ==
  /\ caller.calls < MaxCalls
  /\ \E which \in {1, 2}, action \in ActionInputs(env.n) :
       /\ (IF which = 1 THEN env ELSE env2).rng.pos < MaxCalls
       /\ LET r == DynamicBanditEnv_step(IF which = 1 THEN env ELSE env2, task, action)
          IN  /\ env' = IF which = 1 THEN r.e ELSE env
              /\ env2' = IF which = 2 THEN r.e ELSE env2
              /\ task' = r.t
              /\ call' = ReturnedBy(which, r.out, r.e)
              /\ caller' = Logged(caller, r.out)
  /\ UNCHANGED <<cfg, task2, agent>>

NextShared == SharedReset \/ SharedStep

SpecShared == InitShared /\ [][NextShared]_vars

\* ------------------------------------------------------------------ claims
\* A step call was made by this transition
StepCalled == caller'.calls = caller.calls + 1

\* Every step call since the last reset returned (none raised)
AllStepsAccepted == caller.calls = Len(caller.actions)

\* C1: alignment invariant of DynamicForagingTaskBase.  After reset the
\* probability history has trial + 1 entries in every state; after reset
\* followed by k accepted steps, 0 <= k <= num_trials, the action and reward
\* histories have k entries, and trial = k with k + 1 vectors when
\* k < num_trials, trial = num_trials - 1 with num_trials vectors when
\* k = num_trials.
AlignmentInvariant ==
  (cfg.cls = TaskCls /\ task.inited) =>
    /\ Len(task.trial_p_reward) = task.trial + 1
    /\ (AllStepsAccepted /\ caller.calls <= task.num_trials) =>
         /\ Len(task.actions) = caller.calls
         /\ Len(task.rewards) = caller.calls
         /\ caller.calls < task.num_trials =>
              (task.trial = caller.calls /\ Len(task.trial_p_reward) = caller.calls + 1)
         /\ caller.calls = task.num_trials =>
              (task.trial = task.num_trials - 1 /\ Len(task.trial_p_reward) = task.num_trials)

\* C1 witness: an episode of three trials after its third accepted step
AlignmentWitness ==
  /\ cfg.cls = TaskCls /\ task.inited /\ AllStepsAccepted
  /\ task.num_trials = 3 /\ caller.calls = 3 /\ Len(task.rewards) = 3

\* C2: the k-th step that returns after reset has terminated = FALSE for
\* k < num_trials and terminated = TRUE for k = num_trials; truncated is FALSE
\* on every step.
TerminatesAtNumTrials ==
  (cfg.cls = TaskCls /\ call.op = "step" /\ call.err = "none") =>
    /\ call.truncated = FALSE
    /\ Len(caller.actions) < task.num_trials => ~call.terminated
    /\ Len(caller.actions) = task.num_trials => call.terminated

\* C2 witness: the third step of a three-trial episode returns terminated,
\* the steps before it having returned
TerminatesWitness ==
  /\ cfg.cls = TaskCls /\ call.op = "step" /\ call.err = "none"
  /\ task.num_trials = 3 /\ Len(caller.actions) = 3 /\ call.terminated

\* The object the caller drives has been reset at least once
Inited == IF cfg.cls = TaskCls THEN task.inited ELSE env.inited

\* An episode is running: reset has been called and the last call was not a
\* step that returned terminated
EpisodeActive == Inited /\ ~(call.op = "step" /\ call.err = "none" /\ call.terminated)

\* C3: a step called before the first reset, or right after a step that
\* returned terminated, raises and appends nothing to the action and reward
\* histories.
StepOnlyInsideEpisode ==
  [][ (StepCalled /\ ~EpisodeActive) =>
        /\ call'.err # "none"
        /\ task'.actions = task.actions
        /\ task'.rewards = task.rewards
        /\ env'.history = env.history ]_vars

\* the size of the action space the object was constructed with
ActionSpaceN == IF cfg.cls = HistCls THEN env.n ELSE cfg.num_arms + int(cfg.allow_ignore)

\* C4: a step whose action is outside [0, n) raises the action check's error
\* and changes nothing: the task (actions, rewards, trial, trial_p_reward,
\* generator) and the env (history window, generator) are as before the call.
InvalidActionRejected ==
  [][ (StepCalled /\ (call'.arg < 0 \/ call'.arg >= ActionSpaceN)) =>
        (call'.err = "AssertionError" /\ task' = task /\ env' = env) ]_vars

\* C4 witness: an out-of-range action rejected in the middle of an episode
InvalidActionWitness ==
  /\ cfg.cls = TaskCls /\ call.op = "step" /\ call.err = "AssertionError"
  /\ call.arg = task.n /\ Len(task.actions) = 2 /\ Len(task.rewards) = 2

\* C7: the reward of a step that returns is 0 or 1; 0 for the ignore action
\* (the last index, when allow_ignore); otherwise 1 exactly when the uniform
\* draw is strictly below the chosen arm's probability in the last vector
\* recorded before the call.
RewardRule ==
  [][ (StepCalled /\ call'.err = "none") =>
        LET a == call'.arg
            obj == IF cfg.cls = TaskCls THEN task ELSE env
            ignore == obj.allow_ignore /\ a = ActionSpaceN - 1
            u == rng_uniform(obj.rng, 0, PScale)
            p == Last(task.trial_p_reward)[a + 1]
        IN  /\ call'.reward \in {0, 1}
            /\ ignore => call'.reward = 0
            /\ ~ignore => (call'.reward = 1 <=> u < p) ]_vars

\* C7 witness: without allow_ignore the last action index is rewarded as an arm
RewardWitness ==
  /\ cfg.cls = TaskCls /\ ~task.allow_ignore /\ call.op = "step" /\ call.err = "none"
  /\ call.arg = task.n - 1 /\ call.reward = 1

\* C8: at any point after reset the accessors give the actions passed to the
\* accepted steps, the rewards those steps returned, and the probability
\* history transposed: a row per arm recorded, trial + 1 columns.
HistoryAccessorsReflectState ==
  (cfg.cls = TaskCls /\ task.inited) =>
    /\ get_choice_history(task) = caller.actions
    /\ get_reward_history(task) = caller.rewards
    /\ \A arm \in 1..Len(get_p_reward(task)) :
         /\ Len(get_p_reward(task)[arm]) = task.trial + 1
         /\ \A tr \in 1..(task.trial + 1) :
              get_p_reward(task)[arm][tr] = task.trial_p_reward[tr][arm]

\* C9: every recorded vector has num_arms entries, and the probability a
\* step looks up for an accepted action exists.
OneProbabilityPerArm ==
  (cfg.cls \in {TaskCls, EnvCls} /\ task.inited) =>
    /\ \A i \in 1..Len(task.trial_p_reward) : Len(task.trial_p_reward[i]) = cfg.num_arms
    /\ call.err # "IndexError"

\* C5: two independently constructed tasks of one configuration, reset with
\* the same seed (not None) and stepped with the same actions, have the same
\* choice history, reward history and probability history after every step.
Determinism ==
  (task.inited /\ task2.inited /\ caller.seeds[1] = caller.seeds[2] /\ caller.seeds[1] # None) =>
    /\ get_choice_history(task) = get_choice_history(task2)
    /\ get_reward_history(task) = get_reward_history(task2)
    /\ get_p_reward(task) = get_p_reward(task2)

\* C5 witness: both reset with seed 1, then three accepted steps, rewarded
\* and unrewarded
DeterminismWitness ==
  /\ task.inited /\ task2.inited /\ caller.seeds = <<1, 1>>
  /\ Len(task.rewards) = 3 /\ Len(caller.actions) = 3
  /\ \E i \in 1..3 : task.rewards[i] = 1
  /\ \E i \in 1..3 : task.rewards[i] = 0

\* C6: every recorded probability of RandomWalkTask lies within its own
\* arm's bounds: p_min[i] <= trial_p_reward[t][i] <= p_max[i].
WithinArmBounds ==
  (cfg.cls = WalkCls /\ task.inited) =>
    \A t \in 1..Len(task.trial_p_reward) : \A arm \in 1..2 :
       /\ cfg.p_min[arm] <= task.trial_p_reward[t][arm]
       /\ task.trial_p_reward[t][arm] <= cfg.p_max[arm]

\* C6 witness: with per-arm bounds, arm L walks from 1 by a step of 2 and is
\* absorbed at its own p_max = 2, after a trial on which the walk was held
AbsorbedWitness ==
  /\ cfg.cls = WalkCls /\ task.inited /\ cfg.p_max[1] = 2 /\ cfg.p_max[2] > 2
  /\ Len(task.trial_p_reward) >= 4
  /\ task.trial_p_reward[2] = task.trial_p_reward[1]
  /\ \E t \in 3..Len(task.trial_p_reward) :
       task.trial_p_reward[t - 1][1] = 1 /\ task.trial_p_reward[t][1] = 2

FreshTask ==
  IF cfg.cls \in {TaskCls, BlockCls}
    THEN DynamicForagingTaskBase_init(cfg.num_arms, cfg.allow_ignore, cfg.num_trials)
    ELSE RandomWalkTask_init

FreshEnv ==
  IF cfg.cls = HistCls
    THEN DynamicBanditEnvHistoryAsState_init(cfg.num_trials, cfg.history_length)
    ELSE DynamicBanditEnv_init(cfg.num_arms, cfg.allow_ignore, cfg.num_trials)

WindowOf(actions, rewards, h) ==
  LET k == Len(actions)
  IN  [ i \in 1..(2 * h) |->
          LET j == (i + 1) \div 2
          IN  IF j > k THEN 0
              ELSE IF i % 2 = 1 THEN actions[k + 1 - j] ELSE rewards[k + 1 - j] ]

\* C12: the observation DynamicBanditEnvHistoryAsState returns from reset or
\* from the k-th accepted step has length 2 * history_length and holds the
\* min(k, history_length) most recent (action, reward) pairs, most recent
\* first, and (0, 0) in the remaining places; all zeros for k = 0.
HistoryWindowObservation ==
  (cfg.cls = HistCls /\ call.op \in {"reset", "step"} /\ call.err = "none") =>
    /\ Len(call.obs) = 2 * cfg.history_length
    /\ call.obs = WindowOf(caller.actions, caller.rewards, cfg.history_length)
    /\ caller.actions = <<>> => \A i \in 1..Len(call.obs) : call.obs[i] = 0

\* C12 witness: a window of two pairs after three accepted steps, the last
\* one rewarded: the first pair has left the window
HistoryWindowWitness ==
  /\ cfg.cls = HistCls /\ cfg.history_length = 2
  /\ call.op = "step" /\ call.err = "none"
  /\ caller.actions = <<0, 0, 1>> /\ caller.rewards[3] = 1
  /\ call.obs = <<1, 1, 0, caller.rewards[2]>>

\* DynamicBanditEnv(task, num_trials = N) run beside the adapter: reset with
\* the seeds the adapter's generators were given, then stepped with `actions`
RECURSIVE PlainEnvRun(_, _, _)
PlainEnvRun(seed, seed_task, actions) ==
  IF actions = <<>>
    THEN DynamicBanditEnv_reset(DynamicBanditEnv_init(DefaultNumArms, FALSE, cfg.num_trials),
                                RandomWalkTask_init, seed, seed, seed_task)
    ELSE LET r == PlainEnvRun(seed, seed_task, SubSeq(actions, 1, Len(actions) - 1))
         IN  DynamicBanditEnv_step(r.e, r.t, Last(actions))

\* C13: DynamicBanditEnvHistoryAsState(task, num_trials = N, history_length
\* = H) and DynamicBanditEnv(task, num_trials = N), reset with the same seed
\* and given the same actions, accept the same actions (the two arms), return
\* the same rewards and both terminate on exactly the N-th step.
AdapterInterchangeable ==
  (/\ cfg.cls = HistCls /\ env.inited /\ call.op = "step"
   /\ caller.calls = Len(caller.actions) + (IF call.err = "none" THEN 0 ELSE 1)) =>
    LET actions == IF call.err = "none" THEN caller.actions ELSE Append(caller.actions, call.arg)
        plain == PlainEnvRun(env.rng.seed, task.rng.seed, actions).out
    IN  /\ (call.err = "none") <=> (plain.err = "none")
        /\ (call.err = "none") <=> (call.arg \in {L, R})
        /\ call.err = "none" =>
             /\ call.reward = plain.reward
             /\ call.terminated = plain.terminated
             /\ call.terminated <=> (Len(caller.actions) = cfg.num_trials)

\* The draws an accepted step takes from the generator that decides the
\* reward, when the reward costs reward_draws of them: the task's own
\* generator also serves the two walk draws of the next trial, the env's
\* generator serves the reward only.
StepDraws(reward_draws) ==
  /\ cfg.cls = TaskCls =>
       task'.rng = [task.rng EXCEPT !.pos = @ + reward_draws + (IF call'.terminated THEN 0 ELSE 2)]
  /\ cfg.cls \in {EnvCls, HistCls} =>
       env'.rng = [env.rng EXCEPT !.pos = @ + reward_draws]

\* the accepted step of this transition took the ignore action
IgnoreStep ==
  /\ (IF cfg.cls = TaskCls THEN task.allow_ignore ELSE env.allow_ignore)
  /\ call'.arg = ActionSpaceN - 1

\* C14: every accepted step performs exactly one uniform draw to decide its
\* reward, whatever the action, the ignore action included.
OneDrawPerStep ==
  [][ (StepCalled /\ call'.err = "none") => StepDraws(1) ]_vars

\* C14 as amended: an accepted step on an arm performs exactly one uniform
\* draw to decide its reward; an accepted ignore step performs none.
OneDrawPerArmStep ==
  [][ (StepCalled /\ call'.err = "none") =>
        StepDraws(IF IgnoreStep THEN 0 ELSE 1) ]_vars

\* C14 witness: an arm step and then an ignore step, both accepted, have
\* taken one draw from the env's generator
OneDrawWitness ==
  /\ cfg.cls = EnvCls /\ env.allow_ignore /\ AllStepsAccepted
  /\ call.op = "step" /\ call.err = "none" /\ call.arg = env.n - 1
  /\ Len(caller.actions) = 2 /\ caller.actions[1] = L /\ env.rng.pos = 1

\* C15: a step that raises, for whatever reason, leaves actions, rewards,
\* trial and trial_p_reward exactly as before the call, so the action and
\* reward histories have the same length in every reachable state.
StepAtomicOnFailure ==
  [][ (cfg.cls = TaskCls /\ StepCalled /\ call'.err # "none") =>
        /\ task'.actions = task.actions
        /\ task'.rewards = task.rewards
        /\ task'.trial = task.trial
        /\ task'.trial_p_reward = task.trial_p_reward
        /\ Len(task'.actions) = Len(task'.rewards) ]_vars

\* The draws the schedule took from the task's generator in this step: all of
\* them for the task an env drives; for DynamicForagingTaskBase, whose
\* generator also decides the reward, those beyond the reward's draw
ScheduleDrawsOfStep ==
  IF cfg.cls = TaskCls
    THEN task'.rng.pos - task.rng.pos - (IF IgnoreStep THEN 0 ELSE 1)
    ELSE task'.rng.pos - task.rng.pos

\* the accepted step of this transition returned terminated
TerminalStep == StepCalled /\ call'.err = "none" /\ call'.terminated

\* C16: the terminal step (taken when trial = num_trials - 1) still generates
\* a next probability vector, consuming the schedule's draws, and discards
\* it: the probability history stays at num_trials entries.
TerminalStepAdvancesSchedule ==
  [][ (cfg.cls \in {TaskCls, EnvCls} /\ TerminalStep) =>
        /\ task.trial = cfg.num_trials - 1
        /\ ScheduleDrawsOfStep = 2
        /\ Len(task'.trial_p_reward) = cfg.num_trials ]_vars

\* C16 as amended: the terminal step does not touch the schedule: no vector
\* is generated, no draw is consumed, trial stays at num_trials - 1 and the
\* probability history stays at num_trials entries; every accepted step
\* before it takes the walk's two draws, appends one vector and increments
\* trial.
TerminalStepLeavesSchedule ==
  [][ (cfg.cls \in {TaskCls, EnvCls} /\ StepCalled /\ call'.err = "none") =>
        IF call'.terminated
          THEN /\ task.trial = cfg.num_trials - 1
               /\ ScheduleDrawsOfStep = 0
               /\ task'.trial = task.trial
               /\ task'.trial_p_reward = task.trial_p_reward
               /\ Len(task'.trial_p_reward) = cfg.num_trials
          ELSE /\ ScheduleDrawsOfStep = 2
               /\ task'.trial = task.trial + 1
               /\ Len(task'.trial_p_reward) = Len(task.trial_p_reward) + 1 ]_vars

\* C16 witness: a two-trial episode after its terminal step: two draws at
\* reset, then reward, walk, walk and the terminal step's reward draw
TerminalStepWitness ==
  /\ cfg.cls = TaskCls /\ cfg.num_trials = 2 /\ ~task.allow_ignore /\ AllStepsAccepted
  /\ call.op = "step" /\ call.err = "none" /\ call.terminated
  /\ Len(caller.actions) = 2 /\ Len(task.trial_p_reward) = 2 /\ task.rng.pos = 6

\* C17: hold flag of RandomWalkTask.  With hold_this_block set, a next_trial
\* that takes trial to 1 or beyond appends a vector equal to the previous one
\* for every arm, consumes no draw and advances trial by exactly one (the
\* flag itself stays set).  The flag has no effect on trial 0, which reset
\* draws uniformly within [p_min, p_max] with two draws of the fresh
\* generator, and reset clears the flag.
HoldFreezesWalk ==
  [][ /\ (call'.op = "next_trial" /\ call'.err = "none" /\ task.hold_this_block) =>
           /\ task'.trial = task.trial + 1
           /\ task'.trial >= 1
           /\ task'.trial_p_reward = Append(task.trial_p_reward, Last(task.trial_p_reward))
           /\ task'.rng = task.rng
           /\ task'.hold_this_block
      /\ (call'.op = "reset") =>
           LET g == default_rng(task'.rng.seed)
           IN  /\ ~task'.hold_this_block
               /\ task'.trial = 0
               /\ task'.rng = advance(advance(g))
               /\ task'.trial_p_reward =
                    << << rng_uniform(g, cfg.p_min[1], cfg.p_max[1]),
                          rng_uniform(advance(g), cfg.p_min[2], cfg.p_max[2]) >> >> ]_vars

\* C17 witness: the flag set right after reset, then next_trial: trial 1
\* repeats trial 0 and the generator stands where reset left it
HoldWitness ==
  /\ cfg.cls = WalkCls /\ call.op = "next_trial" /\ call.err = "none"
  /\ task.hold_this_block /\ task.trial = 1 /\ task.rng.pos = 2
  /\ task.trial_p_reward[2] = task.trial_p_reward[1]

\* the accepted step of this transition is the num_trials-th step of an
\* episode in which every step call returned
EpisodeCompleted ==
  /\ caller'.calls = Len(caller'.actions)
  /\ Len(caller'.actions) = cfg.num_trials

LearnSeesBothObservations ==
  /\ call.op = "learn" =>
       /\ call.arg.observation = agent.act_observation
       /\ call.arg.next_observation = agent.observation
       /\ call.arg.action = Last(caller.actions)
       /\ call.arg.reward = Last(caller.rewards)
  /\ agent.pc = "returned" =>
       (caller.calls = cfg.num_trials /\ Len(caller.actions) = cfg.num_trials)

\* C20: every call of RandomAgent.act and RandomAgentBiasedIgnore.act
\* returns a member of the task's action space, for every (num_arms,
\* allow_ignore), so perform never fails step's action check.
BundledAgentsActValidly ==
  (agent.cls \in {RandomAgentCls, BiasedIgnoreCls}) =>
    /\ call.op = "act" => (call.err = "none" /\ contains(task.n, agent.action))
    /\ agent.pc # "raised"

\* C21: with two DynamicBanditEnv instances wrapping one task, under any
\* interleaving of their reset and step calls, every reset or step that
\* returns has info["trial"] equal to observation["trial"], and a step taken
\* when the task is at trial num_trials - 1 returns terminated.
TrialSynchronized ==
  [][ (call'.op \in {"reset", "step"} /\ call'.err = "none") =>
        /\ call'.info.trial = call'.obs.trial
        /\ (StepCalled /\ task.trial = cfg.num_trials - 1) => call'.terminated ]_vars

\* The state of the task's generator from which the probability of `arm` on
\* trial `trial` was drawn: the walk takes two draws per trial, L then R
DrawOfProbability(trial, arm) == [seed |-> task.rng.seed, pos |-> 2 * trial + arm]

\* C22: after DynamicBanditEnv.reset(seed = S) with S given, the stream of
\* the reward draws is independent of the stream that generated the task's
\* probabilities: the reward draw of the first step is never the draw that
\* produced the probability it is compared against.
RewardDrawIndependent ==
  [][ (/\ cfg.cls = EnvCls /\ call.op = "reset" /\ call.arg # None
       /\ StepCalled /\ call'.err = "none" /\ ~IgnoreStep) =>
        env.rng # DrawOfProbability(task.trial, call'.arg) ]_vars

====
